---- MODULE Spec2Model ----
(***************************************************************************)
(* pypacket: the layer classes of src/pylayers.py (IPv4Layer, UDPLayer,    *)
(* Payload) and the composer serialize_layers, which walks the layers      *)
(* backward to propagate the length fields and forward to serialize them   *)
(* into one io.BytesIO buffer.                                             *)
(*                                                                         *)
(* Bytes are integers 0..255 and a bytes object is a sequence of them.     *)
(* A str is a sequence of one-character strings.  A **opts dictionary is   *)
(* a function from key names to values.  A layer object is a record of its *)
(* attributes plus the name of its class in the field kind.  Each position *)
(* of the layer sequence holds its own instance.                           *)
(***************************************************************************)
EXTENDS Integers, Sequences, FiniteSets, TLC

VARIABLES
    args,          \* the constructor arguments of each layer, outermost first
    layers,        \* the layer objects passed as *layers
    pc,            \* "idle" (caller), "backward", "forward" (in serialize_layers)
    i,             \* position of the loop of serialize_layers that runs
    first_time,    \* local of serialize_layers
    curr_payload,  \* local of serialize_layers: <<>> while unbound, else <<n>>
    buf,           \* the io.BytesIO of serialize_layers
    log,           \* the method calls of the running or last run, in order
    hist,          \* one record per finished call of serialize_layers
    entry,         \* the layer objects as they were when the run was called
    dbuf,          \* a buffer of the caller that it serializes single layers into
    direct         \* the caller's own serialize calls since the last composer run

vars == <<args, layers, pc, i, first_time, curr_payload, buf, log, hist, entry,
          dbuf, direct>>

-----------------------------------------------------------------------------
(* Bounds of the model.                                                    *)

MaxLayers == 3
MaxRuns == 2
MaxDirect == 2

-----------------------------------------------------------------------------
(* Module constants.                                                       *)

IPV4_EVIL_BIT == 4
IPV4_DONT_FRAGMENT == 2
IPV4_MORE_FRAGMENTS == 1

-----------------------------------------------------------------------------
(* Library functions the layers use.                                       *)

Digits == <<"0", "1", "2", "3", "4", "5", "6", "7", "8", "9">>

DigitVal(c) == (CHOOSE d \in 1..10 : Digits[d] = c) - 1

RECURSIVE AtonFrom(_, _, _, _)
AtonFrom(s, k, cur, out) ==
    IF k > Len(s) THEN Append(out, cur)
    ELSE IF s[k] = "." THEN AtonFrom(s, k + 1, 0, Append(out, cur))
    ELSE AtonFrom(s, k + 1, cur * 10 + DigitVal(s[k]), out)

\* socket.inet_aton on a four-part dotted-decimal string: the four octets.
inet_aton(s) == AtonFrom(s, 1, 0, <<>>)

\* dict.get(key, default)
Get(opts, key, default) == IF key \in DOMAIN opts THEN opts[key] ELSE default

\* One field of a struct format in network byte order: "B", "H" or "4s".
FieldOK(c, v) ==
    IF c = "B" THEN v \in 0..255
    ELSE IF c = "H" THEN v \in 0..65535
    ELSE TRUE

\* FieldBytes with "H" in little-endian order.
FieldBytes_little_endian(c, v) ==
    IF c = "B" THEN <<v>>
    ELSE IF c = "H" THEN <<v % 256, v \div 256>>
    ELSE [k \in 1..4 |-> IF k <= Len(v) THEN v[k] ELSE 0]

FieldBytes(c, v) ==
    IF c = "B" THEN <<v>>
    ELSE IF c = "H" THEN <<v \div 256, v % 256>>
    ELSE [k \in 1..4 |-> IF k <= Len(v) THEN v[k] ELSE 0]

RECURSIVE PackFrom(_, _, _)
PackFrom(fmt, vals, k) ==
    IF k > Len(fmt) THEN <<>>
    ELSE FieldBytes(fmt[k], vals[k]) \o PackFrom(fmt, vals, k + 1)

\* struct.pack("!...", ...): the bytes, or struct.error when a value does not
\* fit its field.
StructPack(fmt, vals) ==
    IF \E k \in 1..Len(fmt) : ~FieldOK(fmt[k], vals[k])
    THEN [err |-> "struct.error", bytes |-> <<>>]
    ELSE [err |-> "", bytes |-> PackFrom(fmt, vals, 1)]

\* io.BytesIO.write
BufWrite(b, data) == b \o data

-----------------------------------------------------------------------------
(* class IPv4Layer                                                         *)

IPv4Layer(protocol, src_ip, dst_ip, opts) ==
    [kind |-> "IPv4Layer",
     verihl |-> 4 * 16 + 5,
     dscp_ecn |-> 0 * 64 + 0,
     total_length |-> Get(opts, "total_length", 0),
     id |-> Get(opts, "id", 0),
     flags |-> Get(opts, "flags", 0),
     fragment_offset |-> Get(opts, "fragment_offset", 0),
     flags_fragment_offset |->
         Get(opts, "flags", 0) * 8192 + Get(opts, "fragment_offset", 0),
     ttl |-> Get(opts, "ttl", 64),
     protocol |-> protocol,
     checksum |-> Get(opts, "checksum", 0),
     src_ip |-> inet_aton(src_ip),
     dst_ip |-> inet_aton(dst_ip)]

\* IPv4_set_length without the header's own 20 bytes.
IPv4_set_length_no_header(self, payload_length) ==
    [self EXCEPT !.total_length = payload_length]

IPv4_set_length(self, payload_length) ==
    [self EXCEPT !.total_length = 20 + payload_length]

IPv4_get_total_length(self) == self.total_length

IPv4_get_payload_length(self) == self.total_length - 20

IPv4_has_checksum(self) == FALSE

IPv4Format == <<"B", "B", "H", "H", "H", "B", "B", "H", "4s", "4s">>

\* IPv4_serialize stepping the identification field for the next datagram.
IPv4_serialize_next_id(self, b) ==
    LET p == StructPack(IPv4Format,
                 <<self.verihl, self.dscp_ecn, self.total_length, self.id,
                   self.flags_fragment_offset, self.ttl, self.protocol,
                   self.checksum, self.src_ip, self.dst_ip>>)
    IN  IF p.err # "" THEN [self |-> self, buf |-> b, err |-> p.err]
        ELSE [self |-> [self EXCEPT !.id = (self.id + 1) % 65536],
              buf |-> BufWrite(b, p.bytes), err |-> ""]

\* A method is the object after the call, the buffer after the call and the
\* exception it raised ("" when none).
IPv4_serialize(self, b) ==
    LET p == StructPack(IPv4Format,
                 <<self.verihl, self.dscp_ecn, self.total_length, self.id,
                   self.flags_fragment_offset, self.ttl, self.protocol,
                   self.checksum, self.src_ip, self.dst_ip>>)
    IN  IF p.err # "" THEN [self |-> self, buf |-> b, err |-> p.err]
        ELSE [self |-> self, buf |-> BufWrite(b, p.bytes), err |-> ""]

-----------------------------------------------------------------------------
(* class UDPLayer                                                          *)

UDPLayer(src_port, dst_port, opts) ==
    [kind |-> "UDPLayer",
     src_port |-> src_port,
     dst_port |-> dst_port,
     length |-> Get(opts, "length", 0),
     checksum |-> Get(opts, "checksum", 0)]

\* UDP_set_length adding to the field instead of replacing it.
UDP_set_length_accumulate(self, payload_length) ==
    [self EXCEPT !.length = self.length + 8 + payload_length]

UDP_set_length(self, payload_length) ==
    [self EXCEPT !.length = 8 + payload_length]

\* UDP_get_total_length returning what get_payload_length returns.
UDP_get_total_length_payload_only(self) == self.length - 8

UDP_get_total_length(self) == self.length

UDP_get_payload_length(self) == self.length - 8

UDP_has_checksum(self) == TRUE

UDPFormat == <<"H", "H", "H", "H">>

\* UDP_serialize writing a checksum it computes because has_checksum() holds.
UDP_serialize_patch_checksum(self, b) ==
    LET p == StructPack(UDPFormat,
                 <<self.src_port, self.dst_port, self.length,
                   (self.src_port + self.dst_port + self.length) % 65536>>)
    IN  IF p.err # "" THEN [self |-> self, buf |-> b, err |-> p.err]
        ELSE [self |-> self, buf |-> BufWrite(b, p.bytes), err |-> ""]

UDP_serialize(self, b) ==
    LET p == StructPack(UDPFormat,
                 <<self.src_port, self.dst_port, self.length, self.checksum>>)
    IN  IF p.err # "" THEN [self |-> self, buf |-> b, err |-> p.err]
        ELSE [self |-> self, buf |-> BufWrite(b, p.bytes), err |-> ""]

-----------------------------------------------------------------------------
(* class Payload                                                           *)

Payload(payload) == [kind |-> "Payload", payload |-> payload]

Payload_set_length(self, payload_length) == self

Payload_get_total_length(self) == Len(self.payload)

Payload_get_payload_length(self) == Len(self.payload)

Payload_has_checksum(self) == FALSE

Payload_serialize(self, b) ==
    [self |-> self, buf |-> BufWrite(b, self.payload), err |-> ""]

-----------------------------------------------------------------------------
(* Method dispatch on the class of the object.                             *)

set_length(self, payload_length) ==
    IF self.kind = "IPv4Layer" THEN IPv4_set_length(self, payload_length)
    ELSE IF self.kind = "UDPLayer" THEN UDP_set_length(self, payload_length)
    ELSE Payload_set_length(self, payload_length)

get_total_length(self) ==
    IF self.kind = "IPv4Layer" THEN IPv4_get_total_length(self)
    ELSE IF self.kind = "UDPLayer" THEN UDP_get_total_length(self)
    ELSE Payload_get_total_length(self)

get_payload_length(self) ==
    IF self.kind = "IPv4Layer" THEN IPv4_get_payload_length(self)
    ELSE IF self.kind = "UDPLayer" THEN UDP_get_payload_length(self)
    ELSE Payload_get_payload_length(self)

has_checksum(self) ==
    IF self.kind = "IPv4Layer" THEN IPv4_has_checksum(self)
    ELSE IF self.kind = "UDPLayer" THEN UDP_has_checksum(self)
    ELSE Payload_has_checksum(self)

serialize(self, b) ==
    IF self.kind = "IPv4Layer" THEN IPv4_serialize(self, b)
    ELSE IF self.kind = "UDPLayer" THEN UDP_serialize(self, b)
    ELSE Payload_serialize(self, b)

\* The constructor call an argument record stands for.
Construct(a) ==
    IF a.cls = "IPv4Layer" THEN IPv4Layer(a.protocol, a.src_ip, a.dst_ip, a.opts)
    ELSE IF a.cls = "UDPLayer" THEN UDPLayer(a.src_port, a.dst_port, a.opts)
    ELSE Payload(a.payload)

-----------------------------------------------------------------------------
(* The caller's inputs.                                                    *)

Addr55 == <<"1", "9", "2", ".", "1", "6", "8", ".", "0", ".", "5", "5">>
Addr100 == <<"1", "9", "2", ".", "1", "6", "8", ".", "0", ".", "1", "0", "0">>
Addr10 == <<"1", "0", ".", "0", ".", "0", ".", "1">>
Addr255 == <<"2", "5", "5", ".", "2", "5", "5", ".", "2", "5", "5", ".", "2", "5", "4">>

HelloWorld == <<72, 101, 108, 108, 111, 32, 87, 111, 114, 108, 100>>

\* n bytes that differ from one position to the next.
Bytes(n) == [k \in 1..n |-> (k * 7) % 256]

\* ipv4, udp and the payload of main.py
MainIPv4 ==
    [cls |-> "IPv4Layer", protocol |-> 17, src_ip |-> Addr55, dst_ip |-> Addr100,
     opts |-> ("flags" :> IPV4_DONT_FRAGMENT)]

MainUDP == [cls |-> "UDPLayer", src_port |-> 5995, dst_port |-> 9559, opts |-> <<>>]

MainPayload == [cls |-> "Payload", payload |-> HelloWorld]

\* Layers whose optional fields, the length fields among them, the caller sets.
OtherIPv4 ==
    [cls |-> "IPv4Layer", protocol |-> 6, src_ip |-> Addr10, dst_ip |-> Addr255,
     opts |-> ("total_length" :> 65530) @@ ("id" :> 4660) @@ ("flags" :> 5)
              @@ ("fragment_offset" :> 7) @@ ("ttl" :> 1) @@ ("checksum" :> 48879)]

OtherUDP ==
    [cls |-> "UDPLayer", src_port |-> 53, dst_port |-> 65535,
     opts |-> ("length" :> 99) @@ ("checksum" :> 43981)]

EmptyPayload == [cls |-> "Payload", payload |-> <<>>]

ShortPayload == [cls |-> "Payload", payload |-> <<0, 255>>]

Pool ==
    <<MainIPv4, MainUDP, MainPayload, OtherIPv4, OtherUDP, EmptyPayload,
      ShortPayload>>

\* Payloads at the edge of the 16-bit length fields: the longest that fits
\* IPv4 over UDP, one byte more, and the shortest that overflows UDP's length.
LongInputs ==
    <<  <<MainIPv4, MainUDP, [cls |-> "Payload", payload |-> Bytes(65535 - 28)]>>,
        <<MainIPv4, MainUDP, [cls |-> "Payload", payload |-> Bytes(65536 - 28)]>>,
        <<OtherUDP, [cls |-> "Payload", payload |-> Bytes(65536 - 8)]>>,
        <<ShortPayload, MainUDP, [cls |-> "Payload", payload |-> Bytes(65536 - 8)]>>  >>

-----------------------------------------------------------------------------
(* The state machine.                                                      *)

Init ==
    /\ \/ \E n \in 0..MaxLayers : \E idx \in [1..n -> 1..Len(Pool)] :
              args = [k \in 1..n |-> Pool[idx[k]]]
       \/ \E s \in 1..Len(LongInputs) : args = LongInputs[s]
    /\ layers = [k \in 1..Len(args) |-> Construct(args[k])]
    /\ pc = "idle"
    /\ i = 0
    /\ first_time = TRUE
    /\ curr_payload = <<>>
    /\ buf = <<>>
    /\ log = <<>>
    /\ hist = <<>>
    /\ entry = layers
    /\ dbuf = <<>>
    /\ direct = <<>>

\* serialize_layers(*layers) is called: first_time = True, curr_payload unbound.
Call ==
    /\ pc = "idle"
    /\ Len(hist) < MaxRuns
    /\ pc' = "backward"
    /\ i' = Len(layers)
    /\ first_time' = TRUE
    /\ curr_payload' = <<>>
    /\ buf' = <<>>
    /\ log' = <<>>
    /\ entry' = layers
    /\ dbuf' = <<>>
    /\ direct' = <<>>
    /\ UNCHANGED <<args, layers, hist>>

\* BackwardStep without the first_time case: set_length on every layer, the
\* innermost one with a payload length of 0.
BackwardStep_every_layer ==
    /\ pc = "backward"
    /\ i >= 1
    /\ LET n == IF first_time THEN 0 ELSE curr_payload[1]
       IN  /\ layers' = [layers EXCEPT ![i] = set_length(layers[i], n)]
           /\ log' = Append(log, <<"set_length", i, n>>)
    /\ curr_payload' = <<get_total_length(layers'[i])>>
    /\ first_time' = FALSE
    /\ i' = i - 1
    /\ UNCHANGED <<args, pc, buf, hist, entry, dbuf, direct>>

\* One iteration of `for layer in reversed(layers)`.
BackwardStep ==
    /\ pc = "backward"
    /\ i >= 1
    /\ IF first_time
       THEN /\ curr_payload' = <<get_total_length(layers[i])>>
            /\ first_time' = FALSE
            /\ layers' = layers
            /\ log' = log
       ELSE /\ layers' = [layers EXCEPT ![i] = set_length(layers[i], curr_payload[1])]
            /\ curr_payload' = <<get_total_length(layers'[i])>>
            /\ first_time' = first_time
            /\ log' = Append(log, <<"set_length", i, curr_payload[1]>>)
    /\ i' = i - 1
    /\ UNCHANGED <<args, pc, buf, hist, entry, dbuf, direct>>

\* The backward loop is over: buf = io.BytesIO().
BackwardDone ==
    /\ pc = "backward"
    /\ i = 0
    /\ buf' = <<>>
    /\ pc' = "forward"
    /\ i' = 1
    /\ UNCHANGED <<args, layers, first_time, curr_payload, log, hist, entry, dbuf,
                   direct>>

\* One iteration of `for layer in layers` in which serialize returns.
ForwardStep ==
    /\ pc = "forward"
    /\ i <= Len(layers)
    /\ LET r == serialize(layers[i], buf)
       IN  /\ r.err = ""
           /\ layers' = [layers EXCEPT ![i] = r.self]
           /\ buf' = r.buf
    /\ log' = Append(log, <<"serialize", i>>)
    /\ i' = i + 1
    /\ UNCHANGED <<args, pc, first_time, curr_payload, hist, entry, dbuf, direct>>

\* One iteration of `for layer in layers` in which serialize raises: the
\* exception leaves serialize_layers, which returns nothing.
ForwardRaise ==
    /\ pc = "forward"
    /\ i <= Len(layers)
    /\ log' = Append(log, <<"serialize", i>>)
    /\ LET r == serialize(layers[i], buf)
       IN  /\ r.err # ""
           /\ layers' = [layers EXCEPT ![i] = r.self]
           /\ buf' = r.buf
           /\ hist' = Append(hist, [err |-> r.err, returned |-> FALSE, res |-> <<>>,
                                    written |-> Len(r.buf), entry |-> entry,
                                    layers |-> layers', log |-> log'])
    /\ pc' = "idle"
    /\ UNCHANGED <<args, i, first_time, curr_payload, entry, dbuf, direct>>

\* The forward loop is over: flush, res = buf.getvalue(), close, return res.
Return ==
    /\ pc = "forward"
    /\ i > Len(layers)
    /\ hist' = Append(hist, [err |-> "", returned |-> TRUE, res |-> buf,
                             written |-> Len(buf), entry |-> entry,
                             layers |-> layers, log |-> log])
    /\ pc' = "idle"
    /\ UNCHANGED <<args, layers, i, first_time, curr_payload, buf, log, entry, dbuf,
                   direct>>

\* The caller itself calls layers[k].serialize(dbuf), on one layer between two
\* composer runs.
DirectSerialize(k) ==
    /\ pc = "idle"
    /\ Len(direct) < MaxDirect
    /\ direct # <<>> => direct[1].idx = k
    /\ LET r == serialize(layers[k], dbuf)
       IN  /\ layers' = [layers EXCEPT ![k] = r.self]
           /\ dbuf' = r.buf
           /\ direct' = Append(direct,
                  [idx |-> k, err |-> r.err, before |-> layers[k],
                   out |-> SubSeq(r.buf, Len(dbuf) + 1, Len(r.buf))])
    /\ UNCHANGED <<args, pc, i, first_time, curr_payload, buf, log, hist, entry>>

Direct == \E k \in 1..Len(layers) : DirectSerialize(k)

Next ==
    \/ Call
    \/ BackwardStep
    \/ BackwardDone
    \/ ForwardStep
    \/ ForwardRaise
    \/ Return
    \/ Direct

Spec == Init /\ [][Next]_vars

-----------------------------------------------------------------------------
(* What the properties below read.                                         *)

Runs == 1..Len(hist)

NumLayers == Len(args)

Kinds(ls) == [k \in 1..Len(ls) |-> ls[k].kind]

\* The call was serialize_layers(IPv4Layer, UDPLayer, Payload).
IPv4UDPPayload == Kinds(layers) = <<"IPv4Layer", "UDPLayer", "Payload">>

\* The number of bytes a layer itself puts on the wire.
OwnSize(l) ==
    IF l.kind = "IPv4Layer" THEN 20
    ELSE IF l.kind = "UDPLayer" THEN 8
    ELSE Len(l.payload)

RECURSIVE SumOwnSize(_, _)
SumOwnSize(ls, k) ==
    IF k > Len(ls) THEN 0 ELSE OwnSize(ls[k]) + SumOwnSize(ls, k + 1)

RECURSIVE SumTotalLength(_, _)
SumTotalLength(ls, k) ==
    IF k > Len(ls) THEN 0 ELSE get_total_length(ls[k]) + SumTotalLength(ls, k + 1)

\* Where layer k starts in the output (0-based).
Offset(ls, k) == SumOwnSize(SubSeq(ls, 1, k - 1), 1)

ReadU8(b, off) == b[off + 1]

ReadU16(b, off) == b[off + 1] * 256 + b[off + 2]

ReadBytes(b, off, n) == SubSeq(b, off + 1, off + n)

RECURSIVE Decimal(_)
Decimal(n) ==
    IF n < 10 THEN <<Digits[n + 1]>>
    ELSE Decimal(n \div 10) \o <<Digits[(n % 10) + 1]>>

\* Four octets as a dotted-decimal string.
inet_ntoa(b) ==
    Decimal(b[1]) \o <<".">> \o Decimal(b[2]) \o <<".">> \o Decimal(b[3])
        \o <<".">> \o Decimal(b[4])

IsPrefix(p, q) == Len(p) <= Len(q) /\ SubSeq(q, 1, Len(p)) = p

\* Every layer but the last is a header layer and the last is a Payload.
HeaderChain(ls) ==
    /\ Len(ls) >= 1
    /\ ls[Len(ls)].kind = "Payload"
    /\ \A k \in 1..(Len(ls) - 1) : ls[k].kind # "Payload"

-----------------------------------------------------------------------------
(* Properties.                                                             *)

\* C1: after serialize_layers(IPv4Layer, UDPLayer, Payload) with a payload of
\* L bytes that keeps both length fields within 16 bits, whatever the length
\* fields held before, the UDP length is 8 + L and the IPv4 total length is
\* 20 + 8 + L.
C1_LengthFields ==
    \A r \in Runs :
        LET h == hist[r]
            L == Len(args[NumLayers].payload)
        IN  (IPv4UDPPayload /\ 20 + 8 + L <= 65535) =>
                /\ h.layers[2].length = 8 + L
                /\ h.layers[1].total_length = 20 + 8 + L

\* The run of C1 on b"Hello World" with both length fields preset by the
\* caller (65530 and 99): they end as 39 and 19.
C1_Witness ==
    /\ args = <<OtherIPv4, OtherUDP, MainPayload>>
    /\ Len(hist) >= 1
    /\ hist[1].returned
    /\ hist[1].entry[1].total_length = 65530
    /\ hist[1].entry[2].length = 99
    /\ hist[1].layers[1].total_length = 39
    /\ hist[1].layers[2].length = 19

\* C2: for serialize_layers(IPv4Layer, UDPLayer, Payload) with in-range
\* fields the call returns 20 + 8 + L bytes: the IPv4 header, the UDP header
\* and the payload unchanged, and reading the documented big-endian offsets
\* gives back the protocol, the addresses, the ports and the payload passed
\* to the constructors.
C2_RoundTrip ==
    \A r \in Runs :
        LET h == hist[r]
            L == Len(args[NumLayers].payload)
        IN  (IPv4UDPPayload /\ 20 + 8 + L <= 65535) =>
                /\ h.returned
                /\ Len(h.res) = 20 + 8 + L
                /\ ReadU8(h.res, 0) = 4 * 16 + 5
                /\ ReadU16(h.res, 2) = 20 + 8 + L
                /\ ReadU8(h.res, 9) = args[1].protocol
                /\ inet_ntoa(ReadBytes(h.res, 12, 4)) = args[1].src_ip
                /\ inet_ntoa(ReadBytes(h.res, 16, 4)) = args[1].dst_ip
                /\ ReadU16(h.res, 20) = args[2].src_port
                /\ ReadU16(h.res, 22) = args[2].dst_port
                /\ ReadU16(h.res, 24) = 8 + L
                /\ ReadBytes(h.res, 28, L) = args[3].payload

\* The packet of main.py: 39 bytes that end with b"Hello World".
C2_Witness ==
    /\ args = <<MainIPv4, MainUDP, MainPayload>>
    /\ Len(hist) >= 1
    /\ hist[1].returned
    /\ Len(hist[1].res) = 39
    /\ ReadBytes(hist[1].res, 28, 11) = HelloWorld

\* C3 as stated: the number of bytes returned is the sum of every layer's
\* get_total_length() read after the call.  It is stated here for header
\* layers over one innermost Payload, the sequences in which the call sets
\* every length field.
C3_SumOfTotalLengths ==
    \A r \in Runs :
        LET h == hist[r]
        IN  (HeaderChain(h.layers) /\ h.returned) =>
                Len(h.res) = SumTotalLength(h.layers, 1)

\* C3 amended: the number of bytes returned is the sum of every layer's own
\* serialized size (20 for an IPv4Layer, 8 for a UDPLayer, len(payload) for a
\* Payload); when header layers are followed by one innermost Payload that is
\* the outermost layer's get_total_length().
C3_SumOfOwnSizes ==
    \A r \in Runs :
        LET h == hist[r]
        IN  (NumLayers >= 1 /\ h.returned) =>
                /\ Len(h.res) = SumOwnSize(h.layers, 1)
                /\ HeaderChain(h.layers) =>
                       Len(h.res) = get_total_length(h.layers[1])

\* A returned IPv4 over UDP over b"Hello World": 39 bytes, while the total
\* lengths are 39, 19 and 11.
C3_Witness ==
    /\ args = <<MainIPv4, OtherUDP, MainPayload>>
    /\ Len(hist) >= 1
    /\ hist[1].returned
    /\ Len(hist[1].res) = 39
    /\ SumTotalLength(hist[1].layers, 1) = 39 + 19 + 11

\* C4 as stated: after a call that returns, every IPv4Layer has total_length
\* = 20 + the bytes serialized after its header, every UDPLayer has length =
\* 8 + the bytes serialized after its header, and get_payload_length() of
\* every layer is non-negative, the innermost layer included.
C4_EveryLengthComposed ==
    \A r \in Runs :
        LET h == hist[r]
        IN  (NumLayers >= 1 /\ h.returned) =>
                \A k \in 1..NumLayers :
                    LET l == h.layers[k]
                        after == Len(h.res) - Offset(h.layers, k) - OwnSize(l)
                    IN  /\ l.kind = "IPv4Layer" => l.total_length = 20 + after
                        /\ l.kind = "UDPLayer" => l.length = 8 + after
                        /\ get_payload_length(l) >= 0

\* C5 as stated: serialize_layers() with no layer fails with an
\* EmptyLayerSequenceError and returns no buffer.
C5_EmptySequenceFails ==
    \A r \in Runs :
        NumLayers = 0 =>
            /\ hist[r].err = "EmptyLayerSequenceError"
            /\ ~hist[r].returned

\* A length field the backward pass computed does not fit 16 bits.
LengthOverflows(ls) ==
    \E k \in 1..(Len(ls) - 1) :
        ls[k].kind # "Payload" /\ get_total_length(ls[k]) > 65535

\* C6 as stated: when a computed length field exceeds 65535 the call fails
\* with a LengthOverflowError before any byte is written to the buffer, and
\* returns nothing.
C6_OverflowFailsFirst ==
    \A r \in Runs :
        LET h == hist[r]
        IN  LengthOverflows(h.layers) =>
                /\ h.err = "LengthOverflowError"
                /\ ~h.returned
                /\ h.written = 0

\* Layer l with its length field replaced by that of m.
WithLengthOf(l, m) ==
    IF l.kind = "IPv4Layer" THEN [l EXCEPT !.total_length = m.total_length]
    ELSE IF l.kind = "UDPLayer" THEN [l EXCEPT !.length = m.length]
    ELSE l

\* C7: serialize_layers computes and patches no checksum: every layer keeps
\* the checksum it was constructed with and the output carries it at the
\* checksum offset of the layer; the call changes nothing but the length
\* fields of the layers that are not innermost.
C7_NoChecksumPatched ==
    \A r \in Runs :
        LET h == hist[r]
        IN  \A k \in 1..NumLayers :
                LET l == h.layers[k]
                    off == Offset(h.layers, k)
                IN  /\ l = WithLengthOf(h.entry[k], l)
                    /\ k = NumLayers => l = h.entry[k]
                    /\ l.kind # "Payload" =>
                           l.checksum = Get(args[k].opts, "checksum", 0)
                    /\ (h.returned /\ l.kind = "IPv4Layer") =>
                           ReadU16(h.res, off + 10) = Get(args[k].opts, "checksum", 0)
                    /\ (h.returned /\ l.kind = "UDPLayer") =>
                           ReadU16(h.res, off + 6) = Get(args[k].opts, "checksum", 0)

\* A returned run over an IPv4Layer and a UDPLayer whose checksums the caller
\* set, and whose length fields the run changed.
C7_Witness ==
    /\ args = <<OtherIPv4, OtherUDP, MainPayload>>
    /\ Len(hist) >= 1
    /\ hist[1].returned
    /\ hist[1].layers # hist[1].entry
    /\ ReadU16(hist[1].res, 10) = 48879
    /\ ReadU16(hist[1].res, 26) = 43981

\* C8: two serialize calls on the same layer with no composer run between
\* them append the same bytes, and serialize leaves the layer as it was.
C8_SerializeTwice ==
    \A a \in 1..Len(direct) :
        /\ layers[direct[a].idx] = direct[a].before
        /\ \A b \in 1..Len(direct) :
               direct[a].idx = direct[b].idx =>
                   /\ direct[a].out = direct[b].out
                   /\ direct[a].err = direct[b].err

\* The IPv4Layer of a composed packet serialized twice by the caller: 20
\* bytes each time, 40 in the caller's buffer.
C8_Witness ==
    /\ Len(hist) >= 1
    /\ Len(direct) = 2
    /\ direct[1].idx = direct[2].idx
    /\ layers[direct[1].idx].kind = "IPv4Layer"
    /\ Len(direct[1].out) = 20
    /\ Len(dbuf) = 40

\* The calls of a whole run on the layers ls, as ls stands after it.
ExpectedLog(ls) ==
    [j \in 1..(Len(ls) - 1) |->
        <<"set_length", Len(ls) - j, get_total_length(ls[Len(ls) - j + 1])>>]
    \o [j \in 1..Len(ls) |-> <<"serialize", j>>]

\* C9: in every run set_length is never called on the innermost layer and
\* once on each other layer, from the second-innermost to the outermost, each
\* time with get_total_length() of the layer just inside it; every set_length
\* comes before the first serialize; serialize is called on the layers in
\* their original order, once each when the run returns (a run that raises
\* stops at the serialize call that raised).
C9_CallOrder ==
    /\ IsPrefix(log, ExpectedLog(layers))
    /\ pc = "forward" => Len(log) = (IF NumLayers = 0 THEN 0 ELSE NumLayers - 1) + i - 1
    /\ \A r \in Runs :
           /\ IsPrefix(hist[r].log, ExpectedLog(hist[r].layers))
           /\ hist[r].returned => hist[r].log = ExpectedLog(hist[r].layers)
           /\ Len(hist[r].log) >= NumLayers

\* A returned run on three layers: two set_length calls, then three
\* serialize calls.
C9_Witness ==
    /\ args = <<MainIPv4, MainUDP, MainPayload>>
    /\ Len(hist) >= 1
    /\ hist[1].returned
    /\ hist[1].log = << <<"set_length", 2, 11>>, <<"set_length", 1, 19>>,
                        <<"serialize", 1>>, <<"serialize", 2>>, <<"serialize", 3>> >>

====
